---- MODULE Spec2Model ----
(***************************************************************************)
(* A model of wfirst_imsim: the pointing object of telescope.py (dither    *)
(* and detector binding, WCS, PSF, footprint test) and the per-pointing    *)
(* run of sim.py (wfirst_sim.setup, iterate_image over an MPI pool,        *)
(* check_file).                                                            *)
(*                                                                         *)
(* Values the program computes in floating point (aberration vectors,      *)
(* WCS and PSF objects, smearing kernels) are kept as terms that record    *)
(* what they were computed from, so that two of them are equal exactly     *)
(* when the program built them from the same inputs in the same way.       *)
(***************************************************************************)
EXTENDS Integers, Sequences, FiniteSets, TLC

VARIABLES
    params,     \* the yaml parameter dict (the entries the model reads)
    pt,         \* sim.pointing: a pointing object, or NoPointing before setup
    last,       \* the last call made on the pointing / sim and how it ended
    ncalls,     \* number of calls made so far (bounded by MaxCalls)
    size,       \* self.size: number of processes of the pool
    cand,       \* cand[w][c]: candidates of class c in worker w's partition
    render,     \* render[w]: the renderer's lazy result sequence (TRUE = non-null)
    pc,         \* pc[w]: where worker w is in iterate_image
    im,         \* im[w]: draw_image.im, worker w's detector-image accumulator
    table,      \* table[w][c]: worker w's index table of class c
    arrived,    \* the workers that have entered comm.Barrier()
    chan,       \* chan[w]: the accumulator worker w has sent and rank 0 not yet received
    src,        \* the loop variable i of rank 0's receive loop
    finalIn,    \* <<image>> once rank 0 has handed its image to finalize_sca
    eager,      \* whether the MPI library buffers a send of an image (eager
                \* protocol) or blocks the sender until the receive (rendezvous)
    disk        \* the files written: name -> [data, writers]

vars == <<params, pt, last, ncalls, size, cand, render, pc, im, table,
          arrived, chan, src, finalIn, eager, disk>>

ptVars   == <<params, pt, last, ncalls>>
poolVars == <<size, cand, render, pc, im, table, arrived, chan, src, finalIn,
              eager, disk>>

-----------------------------------------------------------------------------
(* Bounds of the model *)

NProcs     == 3   \* processes in the pool of the pool specification
MaxCand    == 1   \* candidates of one class in one worker's partition
MaxResults == 2   \* results the renderer yields for one class before done
NPix       == 2   \* pixels of the detector image
NDithers   == 2   \* rows of the dither schedule (indices 0..NDithers-1)
NSca       == 2   \* detectors modelled (the program has 18)
MaxCalls   == 4   \* calls made on one pointing object

(* Program constants *)

Sentinel        == -999  \* index_table['ind'] = -999
LosThresholdPct == 15    \* np.random.rand() > 0.15, in percent
AxisThresholdPct == 50   \* np.random.rand() > 0.5, in percent

NoneI == -1     \* Python's None in an integer field (sca, dither)
NoneT == <<>>   \* Python's None in an object field (filter, WCS, PSF, kernel)

-----------------------------------------------------------------------------
(* Strings.  A string is a sequence of characters; str(n) and '+' are      *)
(* modelled as the digits of n and as concatenation.                       *)

Digit(n) == <<"0", "1", "2", "3", "4", "5", "6", "7", "8", "9">>[n + 1]

RECURSIVE str(_)
str(n) == IF n < 10 THEN <<Digit(n)>> ELSE str(n \div 10) \o <<Digit(n % 10)>>

\* str() of a field that may be None
strOpt(v) == IF v = NoneI THEN <<"N", "o", "n", "e">> ELSE str(v)

Filters == <<<<"J", "1", "2", "9">>, <<"H", "1", "5", "8">>>>

FilterSet == {Filters[k] : k \in 1..Len(Filters)}

\* filter_dither_dict_[d['filter']]: the filter the schedule records for row d
ScheduleFilter(d) == Filters[(d % Len(Filters)) + 1]

Dithers    == 0..(NDithers - 1)   \* rows the schedule has
DitherArgs == 0..NDithers         \* NDithers itself is past the end
Scas       == 1..NSca

-----------------------------------------------------------------------------
(* telescope.py: class pointing *)

\* The fields __init__ sets before it binds anything.  pose is the schedule
\* row whose ra/dec/pa/date and trig caches the object holds (NoneI while
\* self.ra, self.sdec, ... do not exist yet); scaCache stands for
\* sca_sdec, sca_cdec, sca_sra, sca_cra.
BlankPointing ==
    [ alive             |-> TRUE,
      filter            |-> NoneT,
      sca               |-> NoneI,
      dither            |-> NoneI,
      pose              |-> NoneI,
      WCS               |-> NoneT,
      PSF               |-> NoneT,
      los_motion        |-> NoneT,
      scaCache          |-> NoneT,
      extra_aberrations |-> <<"cfg">> ]

\* The sim object before setup: hasattr(self, 'pointing') is false
NoPointing == [BlankPointing EXCEPT !.alive = FALSE]

Ok(p)        == [p |-> p, err |-> "ok"]
Raise(p, e)  == [p |-> p, err |-> e]

\* self.filter and self.bpass are set together
get_bpass(p, filter_) == [p EXCEPT !.filter = filter_]

update_dither(p, dither) ==
    LET p1 == [p EXCEPT !.dither = dither]
    IN  IF dither \notin Dithers
        THEN Raise(p1, "IndexError")   \* fio.FITS(...)[-1][self.dither]
        ELSE LET p2 == [p1 EXCEPT !.pose = dither]
             IN  IF p2.filter = NoneT
                 THEN Ok(get_bpass(p2, ScheduleFilter(dither)))
                 ELSE Ok(p2)

\* wfirst.getWCS(world_pos, PA, date, SCAs)[sca]
getWCS(pose, sca) == <<"wcs", "pose">> \o str(pose) \o <<"sca">> \o str(sca)

get_wcs(p) ==
    IF p.pose = NoneI
    THEN Raise(p, "AttributeError")    \* self.ra does not exist
    ELSE Ok([p EXCEPT !.WCS = getWCS(p.pose, p.sca)])

\* np.random.seed(seed); np.random.rand(): a fixed function of the seed.
\* The unit interval is cut into 100 equal cells and the draw is the middle
\* of cell UniformDraw(seed)
UniformDraw(seed) == (37 * seed + 11) % 100

\* The cells of a uniform draw, each as likely as the others
DrawCells == 0..99

\* rand() > pct/100 for a draw in the middle of cell u
Exceeds(u, pct) == 2 * u + 1 > 2 * pct

\* wfirst.getPSF(sca, filter, ..., extra_aberrations): the stored PSF object
getPSF(sca, filter_, extra) ==
    <<"psf", "sca">> \o str(sca) \o <<"filter">> \o filter_ \o <<"ab">> \o extra

\* Lines 125-141 read as if / elif: the first enabled mode wins
AberrationModes_FirstMatch(p, prm) ==
    LET base == p.extra_aberrations
    IN  IF prm.gradient_aberration THEN base \o <<"*grad">> \o str(p.sca)
        ELSE IF prm.random_aberration THEN base \o <<"*rand">> \o str(p.sca)
        ELSE IF prm.oscillating_aberration THEN base \o <<"*time">> \o str(p.dither)
        ELSE NoneT

\* The aberration vector after lines 125-141 (None while no mode was applied)
AberrationModes(p, prm) ==
    LET base == p.extra_aberrations
        e1 == IF prm.gradient_aberration
              THEN base \o <<"*grad">> \o str(p.sca) ELSE NoneT
        e2 == IF prm.random_aberration
              THEN base \o <<"*rand">> \o str(p.sca) ELSE e1
        e3 == IF prm.oscillating_aberration
              THEN base \o <<"*time">> \o str(p.dither) ELSE e2
    IN  e3

\* The error, if any, of lines 125-141: time_aberration() reads
\* date[self.dither]
AberrationError(p, prm) ==
    IF prm.oscillating_aberration /\ p.dither \notin Dithers
    THEN "IndexError" ELSE "ok"

\* Lines 143-153: the smearing kernel and the error raised, if any
LosMotion(p, prm) ==
    IF prm.los_motion = "absent" THEN Ok(p)
    ELSE LET p1 == IF prm.los_motion = "set"
                   THEN [p EXCEPT !.los_motion = <<"los">>] ELSE p
         IN  IF prm.los_motion_e1 = "absent" \/ prm.los_motion_e2 = "absent"
             THEN Ok(p1)
             ELSE IF prm.los_motion_e1 = "set" /\ prm.los_motion_e2 = "set"
                  THEN IF p1.los_motion = NoneT
                       THEN Raise(p1, "AttributeError")   \* None.shear
                       ELSE Ok([p1 EXCEPT !.los_motion = @ \o <<"shear">>])
                  ELSE Raise(p1, "ParamError")

\* Lines 155-160 with the comparison turned round: smearing kept above the
\* threshold
RandomLosMotion_KeepAbove(p, prm) ==
    IF prm.random_los_motion /\ ~Exceeds(UniformDraw(p.dither), LosThresholdPct)
    THEN [p EXCEPT !.los_motion = NoneT] ELSE p

\* Lines 155-160
RandomLosMotion(p, prm) ==
    IF prm.random_los_motion /\ Exceeds(UniformDraw(p.dither), LosThresholdPct)
    THEN [p EXCEPT !.los_motion = NoneT] ELSE p

\* Lines 162-194
StorePSF(p, prm, modes) ==
    LET e4 == IF prm.random_aberration_gradient
              THEN p.extra_aberrations \o <<"*chip">> \o str(p.sca) ELSE modes
        extra == IF e4 = NoneT THEN p.extra_aberrations ELSE e4
    IN  IF prm.random_aberration_gradient
        THEN Ok([p EXCEPT !.PSF = NoneT, !.extra_aberrations = extra])
        ELSE IF prm.gauss_psf # "absent"
             THEN IF prm.gauss_psf = "set"
                  THEN Ok([p EXCEPT !.PSF = <<"gauss">>])
                  ELSE Ok(p)
             ELSE IF p.filter = NoneT
                  THEN Raise(p, "AttributeError")   \* self.bpass
                  ELSE Ok([p EXCEPT !.PSF = getPSF(p.sca, p.filter, extra)])

get_psf(p, prm) ==
    IF AberrationError(p, prm) # "ok" THEN Raise(p, AberrationError(p, prm))
    ELSE LET l == LosMotion(p, prm)
         IN  IF l.err # "ok" THEN l
             ELSE StorePSF(RandomLosMotion(l.p, prm), prm, AberrationModes(p, prm))

update_sca(p, prm, sca) ==
    LET w == get_wcs([p EXCEPT !.sca = sca])
    IN  IF w.err # "ok" THEN w
        ELSE LET g == get_psf(w.p, prm)
             IN  IF g.err # "ok" THEN g
                 ELSE Ok([g.p EXCEPT !.scaCache = <<"centre">> \o g.p.WCS])

\* pointing.__init__: the object, or the error that ends the construction
pointing_init(prm, filter_, sca, dither) ==
    LET p1 == IF filter_ # NoneT THEN get_bpass(BlankPointing, filter_)
              ELSE BlankPointing
    IN  IF sca # NoneI
        THEN Raise(p1, "TypeError")  \* update_sca(sca, sca_pos=...): no such keyword
        ELSE IF dither # NoneI THEN update_dither(p1, dither) ELSE Ok(p1)

\* Pixel positions of an object on the detector, as <<x, y>>
Positions == (1..NPix) \X (1..NPix)

\* The pixel coordinate load_psf scales the aberration with; the axis is
\* drawn per object, seeded by the position
LoadAxis_PerObject(p, pos) ==
    IF Exceeds(UniformDraw(pos[1] + pos[2]), AxisThresholdPct) THEN pos[1] ELSE pos[2]

\* Lines 206-210: np.random.seed(self.sca); i = pos.x if rand()>0.5 else pos.y
LoadAxis(p, pos) ==
    IF Exceeds(UniformDraw(p.sca), AxisThresholdPct) THEN pos[1] ELSE pos[2]

\* load_psf that returns the stored PSF in every mode
load_psf_AlwaysStored(p, prm, pos, star) ==
    IF star THEN [err |-> "AttributeError", psf |-> NoneT]
    ELSE [err |-> "ok", psf |-> p.PSF]

\* load_psf(pos, star) on a pointing with a detector bound: [err, psf]
load_psf(p, prm, pos, star) ==
    IF prm.random_aberration_gradient
    THEN IF p.filter = NoneT
         THEN [err |-> "AttributeError", psf |-> NoneT]   \* self.bpass
         ELSE [err |-> "ok",
               psf |-> getPSF(p.sca, p.filter,
                              p.extra_aberrations \o <<"*pix">> \o str(LoadAxis(p, pos)))]
    ELSE IF star
         THEN [err |-> "AttributeError", psf |-> NoneT]   \* self.PSF_high is never set
         ELSE [err |-> "ok", psf |-> p.PSF]

-----------------------------------------------------------------------------
(* Footprint test.  Sky positions are small integers; the boresight frame  *)
(* of lines 289-293 is taken in the small-angle limit (mX = dec - dec0,    *)
(* mY = ra0 - ra) with the pixel scale as the unit, and the schedule's     *)
(* position angles are multiples of 90 degrees so that spa, cpa are 0, 1.  *)

PoseRa(pose)  == 4 * pose
PoseDec(pose) == 0
PoseSpa(pose) == pose % 2
PoseCpa(pose) == 1 - (pose % 2)

\* cptr[k + 12*(sca-1)], k = 0..11: four half planes a*xi + b*yi < c
cptr(sca) ==
    << <<1, 0, 2 + 4 * (sca - 1)>>, <<-1, 0, 2 - 4 * (sca - 1)>>,
       <<0, 1, 2>>,                 <<0, -1, 2>> >>

chip_enlarge == 1   \* params['chip_enlarge']

xi(p, ra, dec) ==
    -(PoseSpa(p.pose) * (dec - PoseDec(p.pose)) + PoseCpa(p.pose) * (PoseRa(p.pose) - ra))

yi(p, ra, dec) ==
    PoseCpa(p.pose) * (dec - PoseDec(p.pose)) - PoseSpa(p.pose) * (PoseRa(p.pose) - ra)

HalfPlane(p, k, ra, dec) ==
    cptr(p.sca)[k][1] * xi(p, ra, dec) + cptr(p.sca)[k][2] * yi(p, ra, dec)
        < cptr(p.sca)[k][3] + chip_enlarge

\* Lines 306-317: the scalar form
OnSca(p, ra, dec) == \A k \in 1..4 : HalfPlane(p, k, ra, dec)

\* The batch form with <= in place of < on every edge
OnScaBatch_NonStrict(p, ras, decs) ==
    {k - 1 : k \in {j \in 1..Len(ras) :
                      \A e \in 1..4 :
                          cptr(p.sca)[e][1] * xi(p, ras[j], decs[j])
                            + cptr(p.sca)[e][2] * yi(p, ras[j], decs[j])
                              <= cptr(p.sca)[e][3] + chip_enlarge}}

\* Lines 296-304: np.where(...)[0] over a batch, as the set of 0-based indices
OnScaBatch(p, ras, decs) ==
    {k - 1 : k \in {j \in 1..Len(ras) :
                      /\ HalfPlane(p, 1, ras[j], decs[j])
                      /\ HalfPlane(p, 2, ras[j], decs[j])
                      /\ HalfPlane(p, 3, ras[j], decs[j])
                      /\ HalfPlane(p, 4, ras[j], decs[j])}}

\* in_sca without the check of self.sca
in_sca_err_NoScaCheck(p) ==
    IF p.dither = NoneI THEN "ParamError"
    ELSE IF p.pose = NoneI THEN "AttributeError"
    ELSE "ok"

\* The checks in_sca makes before the geometry: the error it ends with
in_sca_err(p) ==
    IF p.dither = NoneI THEN "ParamError"
    ELSE IF p.sca = NoneI THEN "ParamError"
    ELSE IF p.pose = NoneI THEN "AttributeError"   \* self.sdec does not exist
    ELSE "ok"

\* in_sca on one coordinate pair: [err, val], val "True" / "False"
in_sca(p, ra, dec) ==
    IF in_sca_err(p) # "ok" THEN [err |-> in_sca_err(p), val |-> "none"]
    ELSE [err |-> "ok", val |-> IF OnSca(p, ra, dec) THEN "True" ELSE "False"]

\* in_sca on a batch: [err, inds]
in_sca_batch(p, ras, decs) ==
    IF in_sca_err(p) # "ok" THEN [err |-> in_sca_err(p), inds |-> {}]
    ELSE [err |-> "ok", inds |-> OnScaBatch(p, ras, decs)]

-----------------------------------------------------------------------------
(* telescope.py: near_pointing.  In the same small-angle frame the chord   *)
(* between two unit vectors is the Euclidean distance of the positions.    *)

bore == 5   \* max_rad_from_boresight, in sky units

\* d['date'] of the schedule row, a day number
PoseDate(pose) == 10 + pose

\* Dates a caller passes as min_date, max_date
Dates == 9..12

\* Line 336: d2 of the k-th point from the boresight
d2(p, ras, decs, k) ==
    (ras[k] - PoseRa(p.pose)) * (ras[k] - PoseRa(p.pose))
        + (decs[k] - PoseDec(p.pose)) * (decs[k] - PoseDec(p.pose))

\* np.where(sqrt(d2)/2 <= self.sbore2)[0], as the set of 0-based indices
WithinBore(p, ras, decs) ==
    {k - 1 : k \in {j \in 1..Len(ras) : d2(p, ras, decs, j) <= bore * bore}}

\* near_pointing(ra, dec, min_date, max_date) with sca=False: [err, inds];
\* dates is <<>> for min_date=None, else <<min_date, max_date>>
near_pointing(p, ras, decs, dates) ==
    IF p.pose = NoneI
    THEN [err |-> "AttributeError", inds |-> {}]        \* self.cdec does not exist
    ELSE IF dates = <<>>
         THEN [err |-> "ok", inds |-> WithinBore(p, ras, decs)]
         ELSE [err |-> "AttributeError", inds |-> {}]   \* self.mjd is never assigned

-----------------------------------------------------------------------------
(* sim.py: get_inds *)

\* self.cats.gals['ra'][:], ['dec'][:]: the catalogue near the pointing
CatRa  == <<0, 3, 4, 9>>
CatDec == <<0, 1, -3, 0>>

get_inds(p) ==
    IF ~p.alive THEN [err |-> "ParamError", inds |-> {}]
    ELSE IF p.dither = NoneI THEN [err |-> "ParamError", inds |-> {}]
    ELSE in_sca_batch(p, CatRa, CatDec)

-----------------------------------------------------------------------------
(* sim.py: setup *)

\* setup(filter_, dither, sca) with setup=False: the pointing it leaves in
\* self.pointing and the error that ends it.  filter_ = NoneT stands for the
\* string 'None' (determine the filter by dither).
setup(prm, filter_, dither, sca) ==
    LET c == pointing_init(prm, filter_, NoneI, NoneI)
    IN  IF c.err # "ok" THEN c
        ELSE LET d == update_dither(c.p, dither)
             IN  IF d.err # "ok" THEN d ELSE update_sca(d.p, prm, sca)

-----------------------------------------------------------------------------
(* sim.py: file names *)

\* get_filename(out_path, path, name, var, name2, ftype, overwrite): one path
\* from its parts
get_filename(dir, path, var, name2, ftype) ==
    <<dir, "/", path, "/">> \o var \o <<"_">> \o name2 \o <<".", ftype>>

\* var = self.pointing.filter+'_'+str(self.pointing.dither)
PointingVar(p) == p.filter \o <<"_">> \o strOpt(p.dither)

\* name2 of a streaming file: str(sca)+'_'+str(rank) [+'_star' | +'_supernova']
StampSuffix(c) ==
    IF c = "gal" THEN <<>>
    ELSE IF c = "star" THEN <<"_", "star">> ELSE <<"_", "supernova">>

\* A streaming file name that leaves the rank out
StampName2_NoRank(p, rank, c) ==
    strOpt(p.sca) \o <<"_">> \o <<"0">> \o StampSuffix(c)

StampName2(p, rank, c) ==
    strOpt(p.sca) \o <<"_">> \o str(rank) \o StampSuffix(c)

\* The file the class loop writes: in tmpdir when there is one
StampFile(prm, p, rank, c) ==
    get_filename(IF prm.tmpdir THEN "tmp" ELSE "out", "stamps",
                 PointingVar(p), StampName2(p, rank, c), "cPickle")

\* filename_: the copy in out_path (used when there is a tmpdir)
StampFileOut(p, rank, c) ==
    get_filename("out", "stamps", PointingVar(p), StampName2(p, rank, c), "cPickle")

Gz(f) == f \o <<".gz">>

\* name2 = str(sca)+'_'+str(tmp_name_id); tmp_name_id is a module global
ImageFile(p) ==
    get_filename("out", "images", PointingVar(p),
                 strOpt(p.sca) \o <<"_", "id">>, "fits.gz")

TruthSuffix(c) ==
    IF c = "gal" THEN <<>>
    ELSE IF c = "star" THEN <<"_", "star">> ELSE <<"_", "sn">>

\* name2 = filter+'_'+str(dither)+'_'+str(sca) [+'_star' | +'_sn'], var = 'index'
TruthName2(filter_, dither, sca) ==
    filter_ \o <<"_">> \o dither \o <<"_">> \o sca

TruthFile(p, c) ==
    get_filename("out", "truth", <<"index">>,
                 TruthName2(p.filter, strOpt(p.dither), strOpt(p.sca)) \o TruthSuffix(c),
                 "fits")

-----------------------------------------------------------------------------
(* The files on disk: name -> [data, writers].  writers collects every     *)
(* <<rank, role>> that opened or created the file for writing.             *)

NoFiles == [f \in {} |-> [data |-> <<>>, writers |-> {}]]

WritersOf(d, f) == IF f \in DOMAIN d THEN d[f].writers ELSE {}

\* io.open(f, 'wb'), fio.write(f, ...), write_fits(f, ...): create or truncate
WriteFile(d, f, data, who) ==
    [g \in DOMAIN d \cup {f} |->
        IF g = f THEN [data |-> data, writers |-> WritersOf(d, f) \cup {who}]
        ELSE d[g]]

\* pickler.dump(x) on the open file f
AppendFile(d, f, x) == [d EXCEPT ![f].data = Append(@, x)]

RemoveFile(d, f) == [g \in DOMAIN d \ {f} |-> d[g]]

\* os.system('gzip ' + f): replaces f by f.gz; does nothing when f is missing
gzip(d, f, who) ==
    IF f \in DOMAIN d
    THEN RemoveFile(WriteFile(d, Gz(f), d[f].data, who), f)
    ELSE d

-----------------------------------------------------------------------------
(* The detector image: NPix pixels *)

Pixels == 1..NPix

ZeroImage == [x \in Pixels |-> 0]

\* A reduction that keeps the received image instead of adding it
ImageAdd_Overwrite(a, b) == b

\* self.draw_image.im + other: elementwise
ImageAdd(a, b) == [x \in Pixels |-> a[x] + b[x]]

\* draw_image.finalize_sca(): the finalized image of an accumulator
finalize_sca(a) == <<"final">> \o a

-----------------------------------------------------------------------------
(* The renderer (draw_image.iterate_gal / retrieve_stamp and the star and  *)
(* supernova forms) and the catalogue partition                            *)

Procs == 0..(size - 1)

ClassSeq == <<"gal", "star", "sn">>
Classes  == {"gal", "star", "sn"}
ClassNo(c) == IF c = "gal" THEN 0 ELSE IF c = "star" THEN 1 ELSE 2

\* The catalogue index of the j-th result of worker w for class c
CatalogInd(w, c, j) == (w * 3 + ClassNo(c)) * 10 + j

\* The pixel a rendered object lands on
StampPix(ind) == ((ind \div 10 + ind) % NPix) + 1

\* The results the renderer yields for class c on worker w before it sets
\* its done flag; null marks a result for which retrieve_stamp() is None
Results(w, c) ==
    [j \in 1..Len(render[w]) |->
        [null |-> ~render[w][j], ind |-> CatalogInd(w, c, j)]]

\* The renderer draws a realized object into the accumulator
Draw(a, ind) == [a EXCEPT ![StampPix(ind)] = @ + 1]

-----------------------------------------------------------------------------
(* sim.py: iterate_image, the class loops (lines 206-302) *)

\* A row of np.empty(...) after index_table['ind'] = -999
EmptyRow == [ind |-> Sentinel, sca |-> 0, dither |-> 0]

NoTable == [alloc |-> FALSE, rows |-> <<>>]

\* The loop taking a null result for the end of the class
RECURSIVE ClassResults_StopAtNull(_, _, _, _, _)
ClassResults_StopAtNull(w, c, st, res, n) ==
    IF res = <<>> \/ st.err # "ok" \/ Head(res).null THEN st
    ELSE LET r == Head(res)
             drawn  == [st EXCEPT !.im = Draw(@, r.ind)]
             dumped == IF c = "gal" /\ params.skip_stamps THEN drawn
                       ELSE [drawn EXCEPT
                               !.disk = AppendFile(@, StampFile(params, pt, w, c), r.ind)]
         IN  IF st.i >= n
             THEN [dumped EXCEPT !.err = "IndexError"]
             ELSE ClassResults_StopAtNull(w, c,
                    [dumped EXCEPT
                       !.rows[st.i + 1] = [ind |-> r.ind, sca |-> pt.sca,
                                           dither |-> pt.dither],
                       !.i = @ + 1],
                    Tail(res), n)

\* The body of `while True` for the results left in res: st is
\* [im, rows, i, disk, err], n the number of rows allocated
RECURSIVE ClassResults(_, _, _, _, _)
ClassResults(w, c, st, res, n) ==
    IF res = <<>> \/ st.err # "ok" THEN st     \* the done flag: break
    ELSE LET r == Head(res)
         IN  IF r.null THEN ClassResults(w, c, st, Tail(res), n)
             ELSE LET drawn  == [st EXCEPT !.im = Draw(@, r.ind)]
                      dumped == IF c = "gal" /\ params.skip_stamps THEN drawn
                                ELSE [drawn EXCEPT
                                        !.disk = AppendFile(@, StampFile(params, pt, w, c), r.ind)]
                  IN  IF st.i >= n
                      THEN [dumped EXCEPT !.err = "IndexError"]
                      ELSE ClassResults(w, c,
                             [dumped EXCEPT
                                !.rows[st.i + 1] = [ind |-> r.ind, sca |-> pt.sca,
                                                    dither |-> pt.dither],
                                !.i = @ + 1],
                             Tail(res), n)

\* One class of lines 210-302 on worker state ws = [im, table, disk, err]
ClassLoop(w, c, ws) ==
    IF ws.err # "ok" THEN ws
    ELSE LET n == cand[w][c]
             opened == IF c = "gal" /\ n = 0 THEN ws.disk
                       ELSE WriteFile(ws.disk, StampFile(params, pt, w, c), <<>>, <<w, c>>)
         IN  IF n = 0 THEN [ws EXCEPT !.disk = opened]
             ELSE LET r == ClassResults(w, c,
                              [im |-> ws.im, rows |-> [k \in 1..n |-> EmptyRow],
                               i |-> 0, disk |-> opened, err |-> "ok"],
                              Results(w, c), n)
                  IN  [im    |-> r.im,
                       table |-> [ws.table EXCEPT ![c] = [alloc |-> TRUE, rows |-> r.rows]],
                       disk  |-> r.disk,
                       err   |-> r.err]

\* Lines 135-302 on worker w, starting from the files d
Loops(w, d) ==
    LET ws0 == [im    |-> ZeroImage,
                table |-> [c \in Classes |-> NoTable],
                disk  |-> d,
                err   |-> IF ~pt.alive THEN "AttributeError"
                          ELSE IF pt.filter = NoneT THEN "TypeError" ELSE "ok"]
    IN  ClassLoop(w, "sn", ClassLoop(w, "star", ClassLoop(w, "gal", ws0)))

CanRunLoops(w) == pc[w] = "start"

\* Worker w runs its three class loops and enters self.comm.Barrier()
RunLoops(w) ==
    /\ CanRunLoops(w)
    /\ LET ws  == Loops(w, disk)
           err == IF ws.err # "ok" THEN ws.err
                  ELSE IF ~params.mpi THEN "AttributeError"   \* None.Barrier()
                  ELSE "ok"
       IN  /\ im' = [im EXCEPT ![w] = ws.im]
           /\ table' = [table EXCEPT ![w] = ws.table]
           /\ disk' = ws.disk
           /\ pc' = [pc EXCEPT ![w] = IF err = "ok" THEN "barrier" ELSE err]
           /\ arrived' = IF err = "ok" THEN arrived \cup {w} ELSE arrived
    /\ UNCHANGED <<ptVars, size, cand, render, chan, src, finalIn, eager>>

-----------------------------------------------------------------------------
(* sim.py: iterate_image, after the barrier (lines 305-403) *)

\* A barrier that lets a process through without waiting for the others
BarrierOpen_NoWait == TRUE

\* comm.Barrier() returns once every process of the pool has entered it
BarrierOpen == arrived = Procs

\* Lines 306-309 on rank 0: [disk, err]
GzipStamps(d) ==
    LET f  == StampFile(params, pt, 0, "gal")
        d1 == gzip(d, f, <<0, "gal">>)
    IN  IF ~params.tmpdir THEN [disk |-> d1, err |-> "ok"]
        ELSE IF Gz(f) \notin DOMAIN d1
             THEN [disk |-> d1, err |-> "IOError"]   \* shutil.copy: no such file
             ELSE [disk |-> WriteFile(d1, Gz(StampFileOut(pt, 0, "gal")),
                                      d1[Gz(f)].data, <<0, "gal">>),
                   err  |-> "ok"]

\* (self.cats.get_gal_length()==0) and (len(tmp)==0), tmp the supernova list
NothingToSend(w) == cand[w]["gal"] = 0 /\ cand[w]["sn"] = 0

CanPassBarrier(w) == pc[w] = "barrier" /\ BarrierOpen

\* Worker w leaves the barrier; lines 306-333
PassBarrier(w) ==
    /\ CanPassBarrier(w)
    /\ LET g == IF w = 0 THEN GzipStamps(disk) ELSE [disk |-> disk, err |-> "ok"]
       IN  /\ disk' = g.disk
           /\ pc' = [pc EXCEPT ![w] =
                        IF g.err # "ok" THEN g.err
                        ELSE IF NothingToSend(w) THEN "done"
                        ELSE IF w = 0 THEN "recv" ELSE "send"]
    /\ src' = IF w = 0 THEN 1 ELSE src
    /\ UNCHANGED <<ptVars, size, cand, render, im, table, arrived, chan, finalIn, eager>>

CanSend(w) == w # 0 /\ pc[w] = "send"

\* Line 347: self.comm.send(self.draw_image.im, dest=0)
Send(w) ==
    /\ CanSend(w)
    /\ chan' = [chan EXCEPT ![w] = <<im[w]>>]
    /\ pc' = [pc EXCEPT ![w] = IF eager THEN "done" ELSE "sending"]
    /\ UNCHANGED <<ptVars, size, cand, render, im, table, arrived, src, finalIn,
                   eager, disk>>

\* recv(source=i) returns once process i has sent
CanRecv == pc[0] = "recv" /\ src < size /\ chan[src] # <<>>

\* Lines 338-339, one turn of the loop: self.comm.recv(source=i)
Recv ==
    /\ CanRecv
    /\ im' = [im EXCEPT ![0] = ImageAdd(im[0], chan[src][1])]
    /\ chan' = [chan EXCEPT ![src] = <<>>]
    /\ pc' = [pc EXCEPT ![src] = "done"]
    /\ src' = src + 1
    /\ UNCHANGED <<ptVars, size, cand, render, table, arrived, finalIn, eager, disk>>

\* index_table[index_table['ind']>-999]
Realized(rows) == SelectSeq(rows, LAMBDA r : r.ind > Sentinel)

\* Lines 373-403 on rank 0: [disk, err]
WriteTruth(d, tab) ==
    IF \E c \in Classes : ~tab[c].alloc
    THEN [disk |-> d, err |-> "NameError"]   \* index_table* was never assigned
    ELSE [disk |-> WriteFile(
                     WriteFile(
                       WriteFile(d, TruthFile(pt, "gal"), Realized(tab["gal"].rows),
                                 <<0, "truth">>),
                       TruthFile(pt, "star"), Realized(tab["star"].rows), <<0, "truth">>),
                     TruthFile(pt, "sn"), Realized(tab["sn"].rows), <<0, "truth">>),
          err  |-> "ok"]

\* range(1, self.size) is exhausted
CanFinish == pc[0] = "recv" /\ src = size

\* Lines 340-343 and 373-403: rank 0 finalizes, writes the image, then the
\* truth tables
CoordFinish ==
    /\ CanFinish
    /\ finalIn' = <<im[0]>>
    /\ LET d1 == WriteFile(disk, ImageFile(pt), finalize_sca(im[0]), <<0, "image">>)
           t  == WriteTruth(d1, table[0])
       IN  /\ disk' = t.disk
           /\ pc' = [pc EXCEPT ![0] = IF t.err = "ok" THEN "done" ELSE t.err]
    /\ UNCHANGED <<ptVars, size, cand, render, im, table, arrived, chan, src, eager>>

NextPool ==
    \/ \E w \in Procs : RunLoops(w)
    \/ \E w \in Procs : PassBarrier(w)
    \/ \E w \in Procs : Send(w)
    \/ Recv
    \/ CoordFinish

-----------------------------------------------------------------------------
(* Initial states *)

DefaultParams ==
    [ gradient_aberration        |-> FALSE,
      random_aberration          |-> FALSE,
      oscillating_aberration     |-> FALSE,
      random_aberration_gradient |-> FALSE,
      los_motion                 |-> "absent",
      los_motion_e1              |-> "absent",
      los_motion_e2              |-> "absent",
      random_los_motion          |-> FALSE,
      gauss_psf                  |-> "absent",
      skip_stamps                |-> FALSE,
      tmpdir                     |-> FALSE,
      mpi                        |-> TRUE,
      sca                        |-> [kind |-> "absent", val |-> <<>>] ]

\* The 'sca' entry of the parameters: the key absent, None, a list of
\* detector ids, one detector id, or a string that is not a number
ScaEntries ==
    { [kind |-> "absent", val |-> <<>>],
      [kind |-> "None",   val |-> <<>>],
      [kind |-> "str",    val |-> <<>>],
      [kind |-> "list",   val |-> <<1, 2>>],
      [kind |-> "list",   val |-> <<2>>] }
        \cup { [kind |-> "int", val |-> <<s>>] : s \in Scas }

\* np.arange(1,19)
AllDetectors == [k \in 1..18 |-> k]

\* hasattr(self.params, name): self.params is the dict yaml.load returns
\* (or the dict passed in), whose attributes are the methods of dict; its
\* keys are items, not attributes
DictAttrs == {"keys", "values", "items", "get", "pop", "update", "copy", "clear",
              "setdefault", "popitem", "fromkeys"}

hasattr_params(name) == name \in DictAttrs

\* type(x) == string_types: string_types is a tuple of types, and no
\* object's type is a tuple
TypeIsStringTypes(e) == FALSE

\* sim.get_sca_list(): [err, list]
get_sca_list(prm) ==
    IF hasattr_params("sca")
    THEN IF prm.sca.kind = "None"                     \* None, or the string 'None'
         THEN [err |-> "ok", list |-> AllDetectors]
         ELSE IF prm.sca.kind \in {"list", "str"}
              THEN IF TypeIsStringTypes(prm.sca)
                   THEN [err |-> "ParamError", list |-> <<>>]
                   ELSE [err |-> "ok", list |-> prm.sca.val]
              ELSE [err |-> "ok", list |-> prm.sca.val]   \* [self.params['sca']]
    ELSE [err |-> "ok", list |-> AllDetectors]

NoCall == [op |-> "none", err |-> "ok", arg |-> NoneI, argDither |-> NoneI,
           argFilter |-> NoneT, preDither |-> NoneI, val |-> "none", inds |-> {},
           pos |-> <<>>, star |-> FALSE, psf |-> NoneT, dates |-> <<>>,
           list |-> <<>>]


\* A pool of n processes at the start of iterate_image, nothing on disk
PoolStart(n) ==
    /\ size = n
    /\ pc = [w \in 0..(n - 1) |-> "start"]
    /\ im = [w \in 0..(n - 1) |-> ZeroImage]
    /\ table = [w \in 0..(n - 1) |-> [c \in Classes |-> NoTable]]
    /\ arrived = {}
    /\ chan = [w \in 0..(n - 1) |-> <<>>]
    /\ src = 0
    /\ finalIn = <<>>
    /\ disk = NoFiles

\* No pool run: one process that has not started iterate_image
PoolIdle ==
    /\ PoolStart(1)
    /\ cand = [w \in {0} |-> [c \in Classes |-> 0]]
    /\ render = [w \in {0} |-> <<>>]
    /\ eager = FALSE

\* The renderer yields one non-null result per candidate
FullRender == [j \in 1..MaxCand |-> TRUE]

\* The pool after setup('None', 1, 1) on every process, every class of every
\* worker's partition empty or full
InitPool ==
    /\ params = DefaultParams
    /\ pt = setup(params, NoneT, 1, 1).p
    /\ last = NoCall
    /\ ncalls = 0
    /\ PoolStart(NProcs)
    /\ cand \in [0..(NProcs - 1) -> [Classes -> {0, MaxCand}]]
    /\ render = [w \in 0..(NProcs - 1) |-> FullRender]
    /\ eager \in BOOLEAN

SpecPool == InitPool /\ [][NextPool]_vars

\* Every sequence of at most MaxResults results, null or not
RenderRuns == UNION {[1..n -> BOOLEAN] : n \in 0..MaxResults}

\* A pool of two processes (the coordinator and one other) whose renderers
\* yield any run of results, with and without a tmpdir and skip_stamps; the
\* image is sent by rendezvous
InitTruth ==
    /\ params \in {[DefaultParams EXCEPT !.tmpdir = t, !.skip_stamps = k] :
                     t \in BOOLEAN, k \in BOOLEAN}
    /\ pt = setup(params, NoneT, 1, 2).p
    /\ last = NoCall
    /\ ncalls = 0
    /\ PoolStart(2)
    /\ cand \in [0..1 -> [Classes -> {0, MaxCand}]]
    /\ render \in [0..1 -> RenderRuns]
    /\ eager = FALSE

SpecTruth == InitTruth /\ [][NextPool]_vars

\* One process with MPI disabled (comm None, rank 0, size 1) or enabled, or
\* an MPI pool of two, after setup; one process's renderer yields any run of
\* results
InitSerial ==
    \E n \in 1..2 :
        /\ PoolStart(n)
        /\ params \in {[DefaultParams EXCEPT !.mpi = m] :
                         m \in IF n = 1 THEN BOOLEAN ELSE {TRUE}}
        /\ pt = setup(params, NoneT, 0, 1).p
        /\ last = NoCall
        /\ ncalls = 0
        /\ cand \in [0..(n - 1) -> [Classes -> {0, MaxCand}]]
        /\ render \in IF n = 1 THEN [0..0 -> RenderRuns]
                      ELSE {[w \in 0..1 |-> FullRender]}
        /\ eager = FALSE

SpecSerial == InitSerial /\ [][NextPool]_vars

-----------------------------------------------------------------------------
(* Claims about the pool run of iterate_image *)

\* No step of the pool is possible any more
PoolStopped ==
    /\ ~CanRecv
    /\ ~CanFinish
    /\ \A w \in Procs : ~CanRunLoops(w) /\ ~CanPassBarrier(w) /\ ~CanSend(w)

\* The accumulator worker w holds when its class loops end
LoopImage(w) == Loops(w, NoFiles).im

\* What the first n workers drew into pixel x
RECURSIVE PixelTotal(_, _)
PixelTotal(n, x) == IF n = 0 THEN 0 ELSE PixelTotal(n - 1, x) + LoopImage(n - 1)[x]

\* C1: in a pool run, whatever the distribution of candidates, no worker is
\* left blocked forever on its send or on a receive: once the pool has
\* stopped, no worker is still inside comm.send or comm.recv.
C1_NoWorkerBlocked ==
    PoolStopped => \A w \in Procs : pc[w] \notin {"send", "sending", "recv"}

\* C2: the image rank 0 hands to finalize_sca is the elementwise sum of the
\* accumulators of all the workers of the pool, each counted once.
C2_ReductionSum ==
    finalIn # <<>> => finalIn[1] = [x \in Pixels |-> PixelTotal(size, x)]

\* C2 witness: three workers with all-ones accumulators give 3 in every pixel.
C2_Witness ==
    /\ finalIn = <<[x \in Pixels |-> NProcs]>>
    /\ \A w \in Procs : LoopImage(w) = [x \in Pixels |-> 1]

\* The detector image has been written
ImageWritten == ImageFile(pt) \in DOMAIN disk

\* An accumulator has been sent or received, or the image finalized or written
TransferBegun ==
    \/ \E w \in Procs : chan[w] # <<>> \/ pc[w] \in {"sending"}
    \/ src > 1
    \/ finalIn # <<>>
    \/ ImageWritten

\* The catalogue indices of the non-null results of class c, over all workers
RealizedInds(c) ==
    {CatalogInd(w, c, j) : <<w, j>> \in
        {x \in Procs \X (1..MaxResults) :
            /\ cand[x[1]][c] # 0
            /\ x[2] <= Len(render[x[1]])
            /\ render[x[1]][x[2]]}}

\* C3: the truth table written for a class holds exactly one row for every
\* non-null result the renderer produced for that class on any worker of the
\* pool, each with the bound detector and dither, and no sentinel row.
C3_TruthRows ==
    \A c \in Classes :
        TruthFile(pt, c) \in DOMAIN disk =>
            LET rows == disk[TruthFile(pt, c)].data
            IN  /\ {rows[k].ind : k \in 1..Len(rows)} = RealizedInds(c)
                /\ Len(rows) = Cardinality(RealizedInds(c))
                /\ \A k \in 1..Len(rows) :
                      /\ rows[k].ind # Sentinel
                      /\ rows[k].sca = pt.sca
                      /\ rows[k].dither = pt.dither

\* C4: no accumulator is sent or received and no image is finalized or
\* written while a worker of the pool is still in its class loops; from
\* then on every other worker's accumulator is the one its loops left.
C4_BarrierBeforeTransfer ==
    TransferBegun =>
        /\ \A v \in Procs : pc[v] # "start"
        /\ \A v \in Procs \ {0} : im[v] = LoopImage(v)

\* C4 witness: the image of a pool run was written after every worker had
\* drawn something.
C4_Witness ==
    /\ ImageWritten
    /\ size >= 2
    /\ \A v \in Procs : LoopImage(v) # ZeroImage

\* Parsing a file name back into its parts
RECURSIVE AfterUnderscores(_, _)
AfterUnderscores(s, k) ==
    IF k = 0 \/ s = <<>> THEN s
    ELSE AfterUnderscores(Tail(s), IF Head(s) = "_" THEN k - 1 ELSE k)

IsDigit(ch) == \E n \in 0..9 : Digit(n) = ch
DigitValue(ch) == CHOOSE n \in 0..9 : Digit(n) = ch

RECURSIVE LeadingInt(_, _)
LeadingInt(s, acc) ==
    IF s = <<>> \/ ~IsDigit(Head(s)) THEN acc
    ELSE LeadingInt(Tail(s), 10 * acc + DigitValue(Head(s)))

IsStampFile(f) == f[3] = "stamps"

\* The rank in a streaming file's name: filter_dither_sca_rank...
RankInName(f) == LeadingInt(AfterUnderscores(f, 3), 0)

\* C5: every file has one writer; the image and the truth tables are written
\* by rank 0 only, and a streaming file only by the one (rank, class) whose
\* rank its name carries.
C5_OneWriter ==
    \A f \in DOMAIN disk :
        /\ Cardinality(disk[f].writers) = 1
        /\ \A wr \in disk[f].writers :
              IF IsStampFile(f) THEN wr[1] = RankInName(f) ELSE wr[1] = 0

\* C5 witness: both workers have written streaming files and rank 0 the
\* image and the truth tables.
C5_Witness ==
    /\ ImageWritten
    /\ TruthFile(pt, "gal") \in DOMAIN disk
    /\ \A w \in Procs : \E f \in DOMAIN disk : IsStampFile(f) /\ <<w, "star">> \in disk[f].writers
    /\ \E f \in DOMAIN disk : IsStampFile(f) /\ f[1] = "tmp"

-----------------------------------------------------------------------------
(* Calls on a pointing object and on the sim object that holds it.  last   *)
(* records the call: its name, the error it ended with, its detector or    *)
(* dither argument (for setup and check_file: the detector in arg, the     *)
(* dither and the filter in argDither and argFilter), the dither bound     *)
(* before it, and what it returned (for load_psf: the position and the     *)
(* star flag in pos and star, the PSF returned in psf).                     *)

Called(op, err, arg, val, inds) ==
    [op |-> op, err |-> err, arg |-> arg, argDither |-> NoneI, argFilter |-> NoneT,
     preDither |-> pt.dither, val |-> val, inds |-> inds,
     pos |-> <<>>, star |-> FALSE, psf |-> NoneT, dates |-> <<>>,
     list |-> <<>>]

\* self.pointing = pointing(params, logger, filter_, sca, dither): the
\* assignment happens only when the constructor returns.  The calls that
\* follow are made on the one object constructed.
Construct(filter_, sca, dither) ==
    /\ ncalls < MaxCalls
    /\ ~pt.alive
    /\ LET r == pointing_init(params, filter_, sca, dither)
       IN  /\ pt' = IF r.err = "ok" THEN r.p ELSE pt
           /\ last' = [Called("init", r.err, sca, "none", {}) EXCEPT !.preDither = NoneI]
    /\ ncalls' = ncalls + 1
    /\ UNCHANGED <<params, poolVars>>

UpdateDither(dither) ==
    /\ ncalls < MaxCalls
    /\ pt.alive
    /\ LET r == update_dither(pt, dither)
       IN  /\ pt' = r.p
           /\ last' = Called("update_dither", r.err, dither, "none", {})
    /\ ncalls' = ncalls + 1
    /\ UNCHANGED <<params, poolVars>>

UpdateSca(sca) ==
    /\ ncalls < MaxCalls
    /\ pt.alive
    /\ LET r == update_sca(pt, params, sca)
       IN  /\ pt' = r.p
           /\ last' = Called("update_sca", r.err, sca, "none", {})
    /\ ncalls' = ncalls + 1
    /\ UNCHANGED <<params, poolVars>>

\* in_sca on the k-th coordinate pair of the catalogue
InSca(k) ==
    /\ ncalls < MaxCalls
    /\ pt.alive
    /\ LET r == in_sca(pt, CatRa[k], CatDec[k])
       IN  last' = Called("in_sca", r.err, k, r.val, {})
    /\ ncalls' = ncalls + 1
    /\ UNCHANGED <<params, pt, poolVars>>

\* pointing.load_psf(pos, star) on a pointing with a detector bound
LoadPsf(pos, star) ==
    /\ pt.alive
    /\ pt.sca # NoneI
    /\ LET r == load_psf(pt, params, pos, star)
       IN  last' = [Called("load_psf", r.err, NoneI, "none", {}) EXCEPT
                      !.pos = pos, !.star = star, !.psf = r.psf]
    /\ UNCHANGED <<params, pt, ncalls, poolVars>>

\* pointing.near_pointing on the catalogue, with or without a date range
NearPointing(dates) ==
    /\ ncalls < MaxCalls
    /\ pt.alive
    /\ LET r == near_pointing(pt, CatRa, CatDec, dates)
       IN  last' = [Called("near_pointing", r.err, NoneI, "none", r.inds) EXCEPT
                      !.dates = dates]
    /\ ncalls' = ncalls + 1
    /\ UNCHANGED <<params, pt, poolVars>>

\* sim.get_inds(), also before setup
GetInds ==
    /\ ncalls < MaxCalls
    /\ LET r == get_inds(pt)
       IN  last' = Called("get_inds", r.err, NoneI, "none", r.inds)
    /\ ncalls' = ncalls + 1
    /\ UNCHANGED <<params, pt, poolVars>>

NextPointing ==
    \/ \E f \in {NoneT} \cup FilterSet, s \in {NoneI} \cup Scas,
          d \in {NoneI} \cup DitherArgs : Construct(f, s, d)
    \/ \E d \in DitherArgs : UpdateDither(d)
    \/ \E s \in Scas : UpdateSca(s)
    \/ \E k \in 1..Len(CatRa) : InSca(k)
    \/ GetInds

\* A sim object before setup, under every combination of the aberration
\* flags, with and without a smearing kernel, with gauss_psf absent or None
InitPointing ==
    /\ params \in {[DefaultParams EXCEPT
                      !.gradient_aberration = g, !.random_aberration = r,
                      !.oscillating_aberration = o, !.random_aberration_gradient = c,
                      !.los_motion = l, !.gauss_psf = k] :
                    g \in BOOLEAN, r \in BOOLEAN, o \in BOOLEAN, c \in BOOLEAN,
                    l \in {"absent", "set"}, k \in {"absent", "None"}}
    /\ pt = NoPointing
    /\ last = NoCall
    /\ ncalls = 0
    /\ PoolIdle

SpecPointing == InitPointing /\ [][NextPointing]_vars

\* The smearing options: each key absent from the params, present with the
\* value None, or set
OptionValues == {"absent", "None", "set"}

\* No pointing yet, under every combination of the smearing options
InitOptics ==
    /\ params \in {[DefaultParams EXCEPT
                      !.los_motion = l, !.los_motion_e1 = e1, !.los_motion_e2 = e2,
                      !.random_los_motion = r] :
                    l \in OptionValues, e1 \in OptionValues, e2 \in OptionValues,
                    r \in BOOLEAN}
    /\ pt = NoPointing
    /\ last = NoCall
    /\ ncalls = 0
    /\ PoolIdle

SpecOptics == InitOptics /\ [][NextPointing]_vars

\* The calls of a run on its pointing: the bindings, and the renderer's
\* load_psf for each object
NextPsf ==
    \/ \E f \in {NoneT} \cup FilterSet, s \in {NoneI} \cup Scas,
          d \in {NoneI} \cup DitherArgs : Construct(f, s, d)
    \/ \E d \in DitherArgs : UpdateDither(d)
    \/ \E s \in Scas : UpdateSca(s)
    \/ \E pos \in Positions, star \in BOOLEAN : LoadPsf(pos, star)

\* No pointing yet, with chip-gradient on or off and at most one of the
\* other aberration modes enabled
InitPsf ==
    /\ params \in {[DefaultParams EXCEPT
                      !.gradient_aberration = (m = "grad"),
                      !.random_aberration = (m = "rand"),
                      !.oscillating_aberration = (m = "time"),
                      !.random_aberration_gradient = c] :
                    m \in {"none", "grad", "rand", "time"}, c \in BOOLEAN}
    /\ pt = NoPointing
    /\ last = NoCall
    /\ ncalls = 0
    /\ PoolIdle

SpecPsf == InitPsf /\ [][NextPsf]_vars

\* The calls of a transient search on its pointing: the bindings, and
\* near_pointing with and without a date range
NextNear ==
    \/ \E f \in {NoneT} \cup FilterSet, s \in {NoneI} \cup Scas,
          d \in {NoneI} \cup DitherArgs : Construct(f, s, d)
    \/ \E d \in DitherArgs : UpdateDither(d)
    \/ \E s \in Scas : UpdateSca(s)
    \/ \E dates \in {<<>>} \cup {<<a, b>> : a \in Dates, b \in Dates} : NearPointing(dates)

SpecNear == InitPsf /\ [][NextNear]_vars

-----------------------------------------------------------------------------
(* Claims about the pointing object *)

\* The aberration vector of mode m for pointing p, from the vector base
ModeVector(m, base, p) ==
    IF m = "chip" THEN base \o <<"*chip">> \o str(p.sca)
    ELSE IF m = "grad" THEN base \o <<"*grad">> \o str(p.sca)
    ELSE IF m = "rand" THEN base \o <<"*rand">> \o str(p.sca)
    ELSE IF m = "time" THEN base \o <<"*time">> \o str(p.dither)
    ELSE base

\* The last len elements of s
Suffix(s, len) == SubSeq(s, Len(s) - len + 1, Len(s))

\* update_sca has just stored the PSF of mode m: under chip-gradient the
\* stored vector was scaled for this detector and no PSF is kept, otherwise
\* the PSF was built with the vector of mode m
ModeApplied(m) ==
    IF m = "chip"
    THEN /\ pt.PSF = NoneT
         /\ Len(pt.extra_aberrations) >= Len(ModeVector("chip", <<>>, pt))
         /\ Suffix(pt.extra_aberrations, Len(ModeVector("chip", <<>>, pt)))
               = ModeVector("chip", <<>>, pt)
    ELSE pt.PSF = getPSF(pt.sca, pt.filter, ModeVector(m, pt.extra_aberrations, pt))

PsfJustBuilt ==
    /\ last.op = "update_sca"
    /\ last.err = "ok"
    /\ params.gauss_psf = "absent"

\* The order the claim gives: chip-gradient, focal-plane-gradient,
\* per-detector-random, time-varying, none
ClaimedMode ==
    IF params.random_aberration_gradient THEN "chip"
    ELSE IF params.gradient_aberration THEN "grad"
    ELSE IF params.random_aberration THEN "rand"
    ELSE IF params.oscillating_aberration THEN "time"
    ELSE "none"

\* The order of the code: a later block overrides an earlier one
OverridingMode ==
    IF params.random_aberration_gradient THEN "chip"
    ELSE IF params.oscillating_aberration THEN "time"
    ELSE IF params.random_aberration THEN "rand"
    ELSE IF params.gradient_aberration THEN "grad"
    ELSE "none"

FreshPointing(f, d, s) ==
    update_sca(update_dither(pointing_init(params, f, NoneI, NoneI).p, d).p, params, s).p

\* C8: a pointing with a dither and a detector bound has the WCS, the
\* detector-centre caches, the stored PSF and the smearing kernel of a fresh
\* pointing bound to its current dither and then its current detector.
C8_CachesFollowBinding ==
    ( /\ last.op \in {"update_dither", "update_sca"}
      /\ last.err = "ok"
      /\ pt.dither \in Dithers
      /\ pt.sca # NoneI
      /\ pt.WCS # NoneT )
    => \E f \in {NoneT} \cup FilterSet :
          LET fresh == FreshPointing(f, pt.dither, pt.sca)
          IN  /\ fresh.WCS = pt.WCS
              /\ fresh.scaCache = pt.scaCache
              /\ fresh.PSF = pt.PSF
              /\ fresh.los_motion = pt.los_motion

\* C9: in_sca ends with ParamError, and returns nothing, whenever the dither
\* or the detector is unbound, and returns a result only when both are
\* bound; get_inds ends with ParamError when the sim has no pointing or the
\* pointing no dither.
C9_InScaGuards ==
    /\ (last.op = "in_sca" /\ (pt.dither = NoneI \/ pt.sca = NoneI))
          => (last.err = "ParamError" /\ last.val = "none")
    /\ (last.op = "in_sca" /\ last.val # "none")
          => (pt.dither # NoneI /\ pt.sca # NoneI)
    /\ (last.op = "get_inds" /\ (~pt.alive \/ pt.dither = NoneI))
          => (last.err = "ParamError" /\ last.inds = {})

\* C9 witness: in_sca called with a dither bound and no detector.
C9_Witness ==
    /\ last.op = "in_sca"
    /\ pt.dither # NoneI
    /\ pt.pose # NoneI
    /\ pt.sca = NoneI
    /\ last.err = "ParamError"

\* C10: update_sca on a pointing without a dither, called directly or by the
\* constructor given a detector, ends with ParamError.
C10_UnboundDitherIsParamError ==
    ( \/ (last.op = "update_sca" /\ last.preDither = NoneI)
      \/ (last.op = "init" /\ last.arg # NoneI) )
    => last.err = "ParamError"

-----------------------------------------------------------------------------
(* sim.py: check_file, and the driver's calls on the sim object.  Every     *)
(* process of the pool makes the same calls with the same arguments, so pt  *)
(* stands for the pointing of each of them.                                 *)

\* check_file(sca, dither, filter_): [p, err, val]; p is the pointing it
\* leaves in self.pointing
check_file(p, prm, d, sca, dither, filter_) ==
    LET c == pointing_init(prm, NoneT, NoneI, dither)
    IN  IF c.err # "ok" THEN [p |-> p, err |-> c.err, val |-> "none"]
        ELSE LET f == get_filename("out", "truth", <<"index">>,
                                   TruthName2(c.p.filter, str(dither), str(sca)), "fits")
             IN  [p |-> c.p, err |-> "ok",
                  val |-> IF f \in DOMAIN d THEN "True" ELSE "False"]

\* No process is inside iterate_image
PoolQuiet ==
    \/ \A w \in Procs : pc[w] \in {"idle", "start"}
    \/ \A w \in Procs : pc[w] \notin {"idle", "start", "barrier", "send", "sending", "recv"}

\* Every class of a worker's partition is empty, or every class is full
EmptyOrFull == {[c \in Classes |-> n] : n \in {0, MaxCand}}

\* sim.setup(filter_, dither, sca) on every process, before the run
Setup(filter_, dither, sca) ==
    /\ \A w \in Procs : pc[w] = "idle"
    /\ LET r == setup(params, filter_, dither, sca)
       IN  /\ pt' = r.p
           /\ last' = [Called("setup", r.err, sca, "none", {}) EXCEPT
                         !.argDither = dither, !.argFilter = filter_]
           /\ pc' = IF r.err = "ok" THEN [w \in Procs |-> "start"] ELSE pc
    /\ cand' \in [Procs -> EmptyOrFull]
    /\ UNCHANGED <<params, ncalls, size, render, im, table, arrived, chan, src,
                   finalIn, eager, disk>>

\* sim.check_file(sca, dither, filter_) on every process
CheckFile(sca, dither, filter_) ==
    /\ PoolQuiet
    /\ LET r == check_file(pt, params, disk, sca, dither, filter_)
       IN  /\ pt' = r.p
           /\ last' = [Called("check_file", r.err, sca, r.val, {}) EXCEPT
                         !.argDither = dither, !.argFilter = filter_]
    /\ UNCHANGED <<params, ncalls, poolVars>>

NextSim ==
    \/ \E f \in {NoneT} \cup FilterSet, d \in DitherArgs, s \in Scas : Setup(f, d, s)
    \/ \E s \in Scas, d \in DitherArgs, f \in FilterSet : CheckFile(s, d, f)
    \/ NextPool

\* Two processes whose sim objects have just been created
InitSim ==
    /\ params = DefaultParams
    /\ pt = NoPointing
    /\ last = NoCall
    /\ ncalls = 0
    /\ size = 2
    /\ pc = [w \in 0..1 |-> "idle"]
    /\ im = [w \in 0..1 |-> ZeroImage]
    /\ table = [w \in 0..1 |-> [c \in Classes |-> NoTable]]
    /\ arrived = {}
    /\ chan = [w \in 0..1 |-> <<>>]
    /\ src = 0
    /\ finalIn = <<>>
    /\ disk = NoFiles
    /\ cand = [w \in 0..1 |-> [c \in Classes |-> 0]]
    /\ render = [w \in 0..1 |-> FullRender]
    /\ eager = FALSE

SpecSim == InitSim /\ [][NextSim]_vars

\* sim.get_sca_list(), at any point between the steps of a run
GetScaList ==
    /\ PoolQuiet
    /\ LET r == get_sca_list(params)
       IN  last' = [Called("get_sca_list", r.err, NoneI, "none", {}) EXCEPT
                      !.list = r.list]
    /\ UNCHANGED <<params, pt, ncalls, poolVars>>

NextDriver ==
    \/ \E f \in {NoneT} \cup FilterSet, d \in DitherArgs, s \in Scas : Setup(f, d, s)
    \/ GetScaList
    \/ NextPool

\* Two processes whose sim objects have just been created, under every
\* form of the 'sca' entry
InitDriver ==
    /\ params \in {[DefaultParams EXCEPT !.sca = e] : e \in ScaEntries}
    /\ pt = NoPointing
    /\ last = NoCall
    /\ ncalls = 0
    /\ size = 2
    /\ pc = [w \in 0..1 |-> "idle"]
    /\ im = [w \in 0..1 |-> ZeroImage]
    /\ table = [w \in 0..1 |-> [c \in Classes |-> NoTable]]
    /\ arrived = {}
    /\ chan = [w \in 0..1 |-> <<>>]
    /\ src = 0
    /\ finalIn = <<>>
    /\ disk = NoFiles
    /\ cand = [w \in 0..1 |-> [c \in Classes |-> 0]]
    /\ render = [w \in 0..1 |-> FullRender]
    /\ eager = FALSE

SpecDriver == InitDriver /\ [][NextDriver]_vars

-----------------------------------------------------------------------------
(* Claims about check_file *)

\* The truth index artifact of the triple check_file was asked about
AskedTruthFile ==
    get_filename("out", "truth", <<"index">>,
                 TruthName2(last.argFilter, str(last.argDither), str(last.arg)), "fits")

\* C6: check_file(sca, dither, filter_) returns true after a run has written
\* the truth index of that (detector, dither, filter), whichever filter the
\* run was set up with, and false when no run has written it.
C6_CheckFileFindsRun ==
    (last.op = "check_file" /\ last.err = "ok")
        => (last.val = "True" <=> AskedTruthFile \in DOMAIN disk)

-----------------------------------------------------------------------------
(* Claims about the artifacts of a run *)

\* The files that process w wrote as `what` ("image", "truth" or a class)
WrittenBy(w, what) == {f \in DOMAIN disk : <<w, what>> \in disk[f].writers}

\* C11: once rank 0 has written the detector image of a run, the galaxy, the
\* star and the supernova truth tables are written too, each by one write of
\* rank 0, whichever classes have no candidate on rank 0.
C11_TruthWithImage ==
    ImageWritten =>
        \A c \in Classes :
            /\ TruthFile(pt, c) \in DOMAIN disk
            /\ disk[TruthFile(pt, c)].writers = {<<0, "truth">>}

\* Process w has no galaxy, no star and no supernova candidate
AllEmpty(w) == \A c \in Classes : cand[w][c] = 0

\* Process w has left iterate_image, by a return or by an exception
Left(w) == pc[w] \notin {"idle", "start", "barrier", "send", "sending", "recv"}

\* C12: a process whose three candidate sets are all empty leaves
\* iterate_image by a plain return, with no exception, and has written no
\* detector image and no truth table.
C12_AllEmptyIsNoOp ==
    \A w \in Procs :
        (AllEmpty(w) /\ Left(w)) =>
            /\ pc[w] = "done"
            /\ WrittenBy(w, "image") = {}
            /\ WrittenBy(w, "truth") = {}

\* The catalogue indices of the non-null results of class c on worker w
WorkerInds(w, c) ==
    {CatalogInd(w, c, j) : j \in {k \in 1..Len(render[w]) : render[w][k]}}

\* The elements of a sequence
Range(q) == {q[k] : k \in 1..Len(q)}

\* The records in the stream of class c of worker w
StreamOf(w, c) ==
    IF StampFile(params, pt, w, c) \in DOMAIN disk
    THEN disk[StampFile(params, pt, w, c)].data ELSE <<>>

\* C13: for each class, when worker w has finished its loops its stream
\* holds no record if skip_stamps is set and one record per non-null result
\* if it is not; the index-table rows are one per non-null result either way.
C13_SkipStampsEveryClass ==
    \A w \in Procs : \A c \in Classes :
        (pc[w] = "barrier" /\ cand[w][c] # 0) =>
            /\ IF params.skip_stamps THEN StreamOf(w, c) = <<>>
               ELSE /\ Range(StreamOf(w, c)) = WorkerInds(w, c)
                    /\ Len(StreamOf(w, c)) = Cardinality(WorkerInds(w, c))
            /\ {r.ind : r \in Range(Realized(table[w][c].rows))} = WorkerInds(w, c)

-----------------------------------------------------------------------------
(* Claims about the footprint test and the smearing options *)

\* The k-th coordinate pair passes the four strict half-plane tests of the
\* bound detector, each bound enlarged by the tolerance
InsideEnlarged(k) ==
    \A e \in 1..4 :
        cptr(pt.sca)[e][1] * xi(pt, CatRa[k], CatDec[k])
          + cptr(pt.sca)[e][2] * yi(pt, CatRa[k], CatDec[k])
            < cptr(pt.sca)[e][3] + chip_enlarge

\* C14: with dither and detector bound, index k is in the set the batch form
\* of in_sca returns iff the scalar form returns true for the k-th pair, and
\* both are the conjunction of the four strict enlarged half-plane tests.
C14_BatchMatchesScalar ==
    /\ (last.op = "get_inds" /\ last.err = "ok") =>
          \A k \in 1..Len(CatRa) :
              /\ (k - 1 \in last.inds) <=> (in_sca(pt, CatRa[k], CatDec[k]).val = "True")
              /\ (k - 1 \in last.inds) <=> InsideEnlarged(k)
    /\ (last.op = "in_sca" /\ last.err = "ok") =>
          /\ (last.val = "True") <=> (last.arg - 1 \in in_sca_batch(pt, CatRa, CatDec).inds)
          /\ (last.val = "True") <=> InsideEnlarged(last.arg)

\* C14 witness: the batch form returned some but not all of the catalogue,
\* leaving out a pair that lies exactly on an enlarged edge.
C14_Witness ==
    /\ last.op = "get_inds"
    /\ last.err = "ok"
    /\ last.inds # {}
    /\ \E k \in 1..Len(CatRa) :
          /\ k - 1 \notin last.inds
          /\ k - 1 \in OnScaBatch_NonStrict(pt, CatRa, CatDec)

\* get_psf has just run: update_sca was called on a pointing with a dither of
\* the schedule bound, so that get_wcs succeeded
GetPsfRan ==
    /\ last.op = "update_sca"
    /\ last.preDither \in Dithers

\* Exactly one of the two shear components has a value
OneShearSet ==
    (params.los_motion_e1 = "set") # (params.los_motion_e2 = "set")

\* C15: get_psf ends with ParamError iff exactly one of los_motion_e1 and
\* los_motion_e2 is set; with both set or both unset it raises no ParamError.
C15_ParamErrorIffOneShear ==
    GetPsfRan => ((last.err = "ParamError") <=> OneShearSet)

-----------------------------------------------------------------------------
(* Claims about the states of a pointing *)

\* The WCS and the detector-centre caches are those built for the bound
\* detector, at some pose of the schedule
BoundForSca ==
    \E d \in Dithers :
        /\ pt.WCS = getWCS(d, pt.sca)
        /\ pt.scaCache = <<"centre">> \o getWCS(d, pt.sca)

\* C16: in every state of a pointing, after failed calls too, a detector id
\* that is not None comes with a bound dither and with the WCS and the
\* detector-centre caches built for that detector; in_sca returns a result
\* only for such a pointing.
C16_ScaImpliesDither ==
    /\ (pt.alive /\ pt.sca # NoneI) => (pt.dither # NoneI /\ BoundForSca)
    /\ (last.op = "in_sca" /\ last.val # "none") => BoundForSca

-----------------------------------------------------------------------------
(* Claims about which runs write the detector image *)

\* C17: a run in which rank 0 has a candidate in at least one class is not
\* skipped: when rank 0 has left iterate_image the detector image is
\* written, with only star candidates too, and it then holds what the
\* workers drew.
C17_StarsOnlyNotSkipped ==
    (Left(0) /\ ~AllEmpty(0)) =>
        /\ ImageWritten
        /\ disk[ImageFile(pt)].data = finalize_sca([x \in Pixels |-> PixelTotal(size, x)])

-----------------------------------------------------------------------------
(* Claims about the stored PSF and the aberration vector *)

\* update_sca has just returned normally on a pointing whose dither is one
\* of the schedule
ScaJustBound ==
    /\ last.op = "update_sca"
    /\ last.err = "ok"
    /\ pt.dither \in Dithers

\* C18: however many times update_sca was called before, after update_sca(d)
\* the aberration vector of the pointing, and the PSF built from it, are
\* those left by the first update_sca(d) of a fresh pointing at the same
\* dither, in every aberration mode.
C18_RebindSameVector ==
    ScaJustBound =>
        \E f \in {NoneT} \cup FilterSet :
            LET fresh == FreshPointing(f, pt.dither, pt.sca)
            IN  /\ fresh.extra_aberrations = pt.extra_aberrations
                /\ params.gauss_psf = "absent" => fresh.PSF = pt.PSF

\* The head of every PSF object wfirst.getPSF builds for the bound detector
PsfHead == <<"psf", "sca">> \o str(pt.sca) \o <<"filter">>

\* The stored PSF is one built for the bound detector: the Gaussian of the
\* gauss_psf option, or a wfirst PSF of that detector
BuiltForSca ==
    \/ pt.PSF = <<"gauss">>
    \/ /\ Len(pt.PSF) >= Len(PsfHead)
       /\ SubSeq(pt.PSF, 1, Len(PsfHead)) = PsfHead

\* C20: after every update_sca the stored PSF is None under chip-gradient
\* and otherwise a PSF built for the newly bound detector, whatever PSF
\* options are configured, gauss_psf present with the value None included.
C20_PsfRebuiltOnBind ==
    ScaJustBound =>
        IF params.random_aberration_gradient THEN pt.PSF = NoneT ELSE BuiltForSca

-----------------------------------------------------------------------------
(* Claims about check_file as a query *)

\* The pointings a successful setup leaves bound
SetupPointings ==
    {setup(params, f, d, s).p :
        <<f, d, s>> \in {x \in ({NoneT} \cup FilterSet) \X DitherArgs \X Scas :
                            setup(params, x[1], x[2], x[3]).err = "ok"}}

\* check_file was the last call, after a successful setup and before any
\* process has entered iterate_image
CheckedBeforeRun ==
    /\ last.op = "check_file"
    /\ \A w \in Procs : pc[w] = "start"

\* C19: check_file called between setup and iterate_image leaves the bound
\* pointing as setup left it (dither, detector, filter, WCS and PSF) and
\* changes no file.
C19_CheckFileIsPure ==
    CheckedBeforeRun => (pt \in SetupPointings /\ disk = NoFiles)

-----------------------------------------------------------------------------
(* Claims about a run without MPI *)

\* C21: with MPI disabled and at least one candidate, iterate_image ends by
\* a plain return after writing the detector image and the three truth
\* tables.
C21_SerialRunCompletes ==
    (~params.mpi /\ ~AllEmpty(0) /\ Left(0)) =>
        /\ pc[0] = "done"
        /\ ImageWritten
        /\ \A c \in Classes : TruthFile(pt, c) \in DOMAIN disk

-----------------------------------------------------------------------------
(* Claims about the class loops *)

\* C22: whatever run of results the renderer yields before done, no class
\* loop writes a row past the end of its index table: no worker ends its
\* loops with IndexError, and a table never holds more rows than were
\* allocated from the candidate count.
C22_RowIndexInBounds ==
    \A w \in Procs :
        /\ pc[w] # "IndexError"
        /\ \A c \in Classes :
              table[w][c].alloc => Len(table[w][c].rows) = cand[w][c]

-----------------------------------------------------------------------------
(* Claims about load_psf *)

\* load_psf has just returned a PSF
PsfLoaded == last.op = "load_psf" /\ last.err = "ok"

\* The PSF wfirst.getPSF builds for the bound detector with the aberration
\* vector scaled by the pixel coordinate i
PsfAtPixel(i) ==
    getPSF(pt.sca, pt.filter, pt.extra_aberrations \o <<"*pix">> \o str(i))

\* C23: in chip-gradient mode no PSF is stored on the pointing and every
\* load_psf returns a PSF computed from a coordinate of the position it is
\* given; in every other mode load_psf for a non-star object returns the
\* stored PSF.
C23_ChipGradientNotCached ==
    /\ (pt.alive /\ params.random_aberration_gradient) => pt.PSF = NoneT
    /\ (PsfLoaded /\ params.random_aberration_gradient) =>
          /\ last.psf \in {PsfAtPixel(last.pos[1]), PsfAtPixel(last.pos[2])}
          /\ last.psf # pt.PSF
    /\ (PsfLoaded /\ ~params.random_aberration_gradient /\ ~last.star) =>
          last.psf = pt.PSF

\* C23 witness: in chip-gradient mode, after at least three calls on the
\* pointing, load_psf returned a PSF for a position off the diagonal.
C23_Witness ==
    /\ PsfLoaded
    /\ params.random_aberration_gradient
    /\ last.pos[1] # last.pos[2]
    /\ last.psf # NoneT
    /\ ncalls >= 3

\* The axis (1 horizontal, 2 vertical) as a function of the detector id alone
AxisOf(sca) == IF Exceeds(UniformDraw(sca), AxisThresholdPct) THEN 1 ELSE 2

\* C28: in chip-gradient mode every load_psf call on a bound detector scales
\* the aberration with the coordinate on the axis fixed by the detector id,
\* whatever the position and whatever calls came before.
C28_AxisFixedPerDetector ==
    (PsfLoaded /\ params.random_aberration_gradient) =>
        last.psf = PsfAtPixel(last.pos[AxisOf(pt.sca)])

\* C28 witness: after the detector was bound, rebound or the dither changed,
\* load_psf on a position off the diagonal used the horizontal coordinate
\* and not the vertical one.
C28_Witness ==
    /\ PsfLoaded
    /\ params.random_aberration_gradient
    /\ ncalls >= 3
    /\ last.pos[1] # last.pos[2]
    /\ last.psf = PsfAtPixel(last.pos[1])
    /\ last.psf # PsfAtPixel(last.pos[2])

-----------------------------------------------------------------------------
(* Claims about the random-subset smearing *)

\* get_psf has just run to its end under the random-subset policy with a
\* symmetric kernel configured
SubsetDecided ==
    /\ GetPsfRan
    /\ last.err = "ok"
    /\ params.random_los_motion
    /\ params.los_motion = "set"

\* The cells of a uniform draw for which the smearing is kept
KeepCells == {u \in DrawCells : ~Exceeds(u, LosThresholdPct)}

\* C24 as stated: the smearing is disabled exactly when the draw seeded by
\* the bound dither exceeds the threshold, and of a uniform draw the share
\* that keeps the smearing is 85% and the share without it 15%.
C24_KeepShare85 ==
    SubsetDecided =>
        /\ (pt.los_motion = NoneT) <=> Exceeds(UniformDraw(pt.dither), LosThresholdPct)
        /\ Cardinality(KeepCells) = 85
        /\ Cardinality(DrawCells \ KeepCells) = 15

\* C24 amended: the smearing is disabled exactly when the draw seeded by the
\* bound dither exceeds the threshold 0.15, and of a uniform draw the share
\* that keeps the smearing is 15% and the share without it 85%.
C24_KeepShare15 ==
    SubsetDecided =>
        /\ (pt.los_motion = NoneT) <=> Exceeds(UniformDraw(pt.dither), LosThresholdPct)
        /\ Cardinality(KeepCells) = 15
        /\ Cardinality(DrawCells \ KeepCells) = 85

\* C24 witness: the policy has kept the sheared kernel at one dither.
C24_Witness ==
    /\ SubsetDecided
    /\ pt.los_motion = <<"los", "shear">>
    /\ ~Exceeds(UniformDraw(pt.dither), LosThresholdPct)

-----------------------------------------------------------------------------
(* Claims about null results and the done flag *)

\* The catalogue indices of the non-null results the renderer yields for
\* class c on worker w before done, in the order it yields them
NonNullInds(w, c) ==
    LET kept == SelectSeq(Results(w, c), LAMBDA r : ~r.null)
    IN  [k \in 1..Len(kept) |-> kept[k].ind]

\* The ind column of the rows filled in the index table of class c
FilledInds(w, c) ==
    LET rows == Realized(table[w][c].rows)
    IN  [k \in 1..Len(rows) |-> rows[k].ind]

\* C25: when a class loop has ended on the renderer's done flag, the index
\* table holds one row, and the stream (unless galaxy stamps are skipped)
\* one record, for each non-null result yielded before done, in order:
\* a null result adds neither and does not end the loop.
C25_NullSkippedDoneEnds ==
    \A w \in Procs : \A c \in Classes :
        (pc[w] = "barrier" /\ cand[w][c] # 0) =>
            /\ FilledInds(w, c) = NonNullInds(w, c)
            /\ (c = "gal" /\ params.skip_stamps) \/ StreamOf(w, c) = NonNullInds(w, c)

\* C25 witness: a worker's supernova loop met a null result and then a
\* non-null one before done.
C25_Witness ==
    \E w \in Procs :
        /\ pc[w] = "barrier"
        /\ cand[w]["sn"] # 0
        /\ Len(render[w]) = 2
        /\ ~render[w][1]
        /\ render[w][2]
        /\ StreamOf(w, "sn") = <<CatalogInd(w, "sn", 2)>>

-----------------------------------------------------------------------------
(* Claims about near_pointing *)

\* near_pointing was the last call, on a pointing with a dither bound and
\* no detector
NearCalled ==
    /\ last.op = "near_pointing"
    /\ pt.dither # NoneI
    /\ pt.pose # NoneI
    /\ pt.sca = NoneI

\* C26: near_pointing with a date range, on a pointing with a dither bound
\* and no detector, succeeds and returns the points within the radius when
\* min_date <= pointing date <= max_date (none otherwise); without a date
\* range it returns the points within the radius.
C26_DateRangeSelects ==
    NearCalled =>
        /\ last.err = "ok"
        /\ last.inds =
              IF last.dates = <<>>
                 \/ (last.dates[1] <= PoseDate(pt.pose) /\ PoseDate(pt.pose) <= last.dates[2])
              THEN WithinBore(pt, CatRa, CatDec)
              ELSE {}

\* The call without a date range returns the points within the radius.
C26_NoRangeWithinBore ==
    (NearCalled /\ last.dates = <<>>) =>
        (last.err = "ok" /\ last.inds = WithinBore(pt, CatRa, CatDec))

\* A call with a date range that holds the pointing's date has been made.
C26_RangeCall ==
    /\ NearCalled
    /\ last.dates # <<>>
    /\ last.dates[1] <= PoseDate(pt.pose)
    /\ PoseDate(pt.pose) <= last.dates[2]

-----------------------------------------------------------------------------
(* Claims about get_sca_list *)

\* C27: get_sca_list returns all detectors 1..18 when the 'sca' entry is
\* absent or None, the configured list when it is a list, the one-element
\* list when it is a single detector id, and raises ParamError when it is
\* a non-numeric string.
C27_ScaListFollowsEntry ==
    last.op = "get_sca_list" =>
        IF params.sca.kind \in {"absent", "None"}
        THEN last.err = "ok" /\ last.list = AllDetectors
        ELSE IF params.sca.kind \in {"list", "int"}
             THEN last.err = "ok" /\ last.list = params.sca.val
             ELSE last.err = "ParamError"

\* With the entry absent or None the list is all of 1..18.
C27_DefaultIsAll ==
    (last.op = "get_sca_list" /\ params.sca.kind \in {"absent", "None"}) =>
        (last.err = "ok" /\ last.list = AllDetectors)

\* get_sca_list returns 1..18 without error whatever the entry.
C27_AlwaysAll ==
    last.op = "get_sca_list" => (last.err = "ok" /\ last.list = AllDetectors)

====
